---- MODULE Spec2Model ----
(***************************************************************************)
(* The token-launch pipeline of LarpX402: the launchpad component          *)
(* (src/src/components/TokenLaunchpad.tsx), the edge functions             *)
(* create-bags-token, get-launch-transaction and save-launched-token       *)
(* (src/supabase/functions), and the launched_tokens table                 *)
(* (src/supabase/migrations).                                              *)
(*                                                                         *)
(* The specifications share the variables:                                 *)
(*   SpecSymbol  the symbol normalization of create-bags-token, applied    *)
(*               to every symbol string up to MaxSymLen;                   *)
(*   SpecClient  the launchpad component against every response the        *)
(*               functions, the wallet and the ledger can give it;         *)
(*   Spec        the launchpad component together with the edge functions  *)
(*               as they are in the source, the external launch API, the   *)
(*               ledger and the table;                                     *)
(*   SpecBuy     the launchpad component with its initial-buy section;     *)
(*   SpecFee     the launchpad component with its fee-sharing section and  *)
(*               create-bags-token;                                        *)
(*   SpecDialog  the launchpad component with its launch button and its    *)
(*               confirmation dialog;                                      *)
(*   SpecStored  the symbol of a launch on its way to the metadata service *)
(*               and on its way into launched_tokens;                      *)
(*   SpecGallery the gallery (src/src/components/TokenGallery.tsx): its    *)
(*               initial query and the INSERT events of its channel.       *)
(***************************************************************************)
EXTENDS Integers, Sequences, FiniteSets, TLC

\* ------------------------------------------------------------ bounds

\* Longest symbol string the normalization is applied to.
MaxSymLen == 4

\* Most fee claimers the form holds (the form itself allows 10).
MaxClaimers == 3

\* Most config transactions a create-bags-token response carries.
MaxConfigTxs == 2

\* Most rows inserted into launched_tokens while a gallery is mounted.
MaxTokens == 3

\* The limit of the gallery query and the length its list is cut to, which
\* is 50 in the source.
GalleryLimit == 2

\* ------------------------------------------------------------ variables

VARIABLES
  \* --- symbol normalization (SpecSymbol)
  symIn,        \* the symbol of the request
  symOnce,      \* symbol.toUpperCase().replace('$', '') of symIn
  symTwice,     \* the same conversion applied to symOnce
  symStage,     \* how many times the conversion has been applied (0, 1, 2)
  \* --- the launchpad component: wallet and form state
  wallet,          \* "none": no publicKey; "full": publicKey, signTransaction, sendTransaction
  imageFile,       \* "none", "file" (at most 5 MiB) or "big" (more than 5 MiB)
  formFilled,      \* name, symbol and description are all non-empty
  formLong,        \* name has more than 32, symbol more than 10 or description more than 500 characters
  initialBuyEnabled,
  initialBuyAmount, \* parseFloat of the amount field
  feeShareEnabled,
  feeClaimers,     \* sequence of [username, bps]
  \* --- the launchpad component: launch state
  status,
  signingStep,
  error,
  txSignature,
  mintAddress,
  \* --- the running launchToken call
  pc,              \* the await launchToken is suspended at ("idle": none running)
  data,            \* the response of create-bags-token
  ci,              \* the loop index i of the config-transaction loop, counted from 1
  launchSignature,
  calls,           \* the calls and responses of the current launch attempt, in order
  \* --- the edge functions, the table and the ledger (Spec)
  edge,            \* the running create-bags-token handler
  db,              \* the rows of launched_tokens
  ledger,          \* the token identities whose launch transaction is confirmed
  \* --- the launch dialog (SpecDialog)
  open,            \* the open state of LaunchConfirmDialog
  \* --- the symbol of one launch on its two ways (SpecStored)
  formSymbol,      \* formData.symbol
  metadataSymbol,  \* the symbol field of the multipart form sent to create-token-info
  rowSymbol,       \* the symbol column of the row of the launch
  symbolStep,      \* "form", "published" or "stored"
  \* --- the gallery (SpecGallery)
  gCount,          \* the rows of launched_tokens, with the ids 1..gCount in insertion order
  gChannel,        \* the realtime channel: "joining" or "joined"
  gEvents,         \* the ids of the INSERT events on their way to the component
  gFetch,          \* the initial query: sent, answered by the table, or done
  tokens,          \* the list of the component, as token ids
  loading,
  gReceived        \* the ids whose INSERT event the component has handled

symVars == <<symIn, symOnce, symTwice, symStage>>

buyVars == <<initialBuyEnabled, initialBuyAmount>>

formVars == <<wallet, imageFile, formFilled, formLong, buyVars, feeShareEnabled, feeClaimers>>

launchVars == <<status, signingStep, error, txSignature, mintAddress>>

runVars == <<pc, data, ci, launchSignature, calls>>

clientVars == <<formVars, launchVars, runVars>>

\* What the component's own steps leave alone.
sysVars == <<edge, db, ledger>>

dialogVars == <<open>>

storedVars == <<formSymbol, metadataSymbol, rowSymbol, symbolStep>>

galleryVars == <<gCount, gChannel, gEvents, gFetch, tokens, loading, gReceived>>

\* What the launch pipeline never touches.
auxVars == <<dialogVars, storedVars, galleryVars>>

envVars == <<symVars, sysVars, auxVars>>

vars == <<symVars, clientVars, sysVars, auxVars>>

\* ------------------------------------------------------------ symbol normalization

\* Characters of a symbol: a lowercase letter, its uppercase, and the dollar sign.
SymChars == {"a", "A", "$"}

RECURSIVE SeqsUpTo(_, _)
SeqsUpTo(S, n) ==
  IF n = 0 THEN {<<>>}
  ELSE LET shorter == SeqsUpTo(S, n - 1)
       IN  shorter \cup {Append(s, c) : s \in {t \in shorter : Len(t) = n - 1}, c \in S}

Symbols == SeqsUpTo(SymChars, MaxSymLen)

\* String.prototype.toUpperCase, character by character.
UpperChar(c) == IF c = "a" THEN "A" ELSE c

ToUpperCase(s) == [i \in 1..Len(s) |-> UpperChar(s[i])]

\* String.prototype.replace(pattern, '') with a string pattern: only the first
\* occurrence of the pattern is removed, wherever it stands.
ReplaceFirst(s, c) ==
  IF \E i \in 1..Len(s) : s[i] = c
  THEN LET k == CHOOSE i \in 1..Len(s) : s[i] = c /\ \A j \in 1..(i - 1) : s[j] # c
       IN  SubSeq(s, 1, k - 1) \o SubSeq(s, k + 1, Len(s))
  ELSE s

\* symbol.toUpperCase().replace('$', '')
NormalizeSymbol(s) == ReplaceFirst(ToUpperCase(s), "$")

\* The normalization the specification describes: uppercase, with one leading
\* '$' removed when the symbol starts with '$'; a '$' elsewhere stays.
StripLeadingDollar(s) ==
  IF Len(s) > 0 /\ s[1] = "$" THEN SubSeq(s, 2, Len(s)) ELSE s

\* ------------------------------------------------------------ values

\* Token identities the metadata endpoint can assign.
Mints == {"M1", "M2"}

\* The launch transaction and the i-th config transaction of a response.
LaunchTx == <<"launch", 0>>

ConfigTx(i) == <<"config", i>>

NoTx == <<"none", 0>>

\* The signature the ledger returns for a submitted transaction.
SigOf(tx) == <<"sig", tx[1], tx[2]>>

\* The initial '' of txSignature and mintAddress.
EmptySig == <<"sig", "", 0>>

EmptyMint == ""

\* A JavaScript number that is NaN. Every other bps of the model lies in 0..9900.
NaN == -1

JsAdd(a, b) == IF a = NaN \/ b = NaN THEN NaN ELSE a + b

JsSub(a, b) == IF a = NaN \/ b = NaN THEN NaN ELSE a - b

\* a < b in JavaScript: false when either side is NaN.
JsLess(a, b) == a # NaN /\ b # NaN /\ a < b

JsMax(a, b) == IF a = NaN \/ b = NaN THEN NaN ELSE IF a > b THEN a ELSE b

JsMin(a, b) == IF a = NaN \/ b = NaN THEN NaN ELSE IF a < b THEN a ELSE b

\* The values parseFloat(e.target.value) * 100 hands to updateFeeClaimer: a
\* percentage above the field's maximum, and the NaN of an emptied field.
BpsInputs == {20000, NaN}

Usernames == {"", "u"}

\* Config keys the fee-share/config endpoint can return.
ConfigKeys == {"K1"}

\* No config key: the field is missing.
NoKey == ""

\* LAMPORTS_PER_SOL of @solana/web3.js
LAMPORTS_PER_SOL == 1000000000

\* A JavaScript number read as an amount of SOL: NaN, a negative number, or
\* sol + (nano + sub / 2) / LAMPORTS_PER_SOL with nano < LAMPORTS_PER_SOL and
\* sub in {0, 1} (the amount has half a lamport more).
SolAmount(kind, sol, nano, sub) == [kind |-> kind, sol |-> sol, nano |-> nano, sub |-> sub]

ZeroSol == SolAmount("num", 0, 0, 0)

\* useState('0.1')
DefaultBuyAmount == SolAmount("num", 0, 100000000, 0)

\* parseFloat of the strings '', '-1', '0', '0.0000000005', '0.1',
\* '9.9999999995', '10', '10.0000000005' and '11'.
BuyAmounts ==
  { SolAmount("nan", 0, 0, 0), SolAmount("neg", 1, 0, 0), ZeroSol,
    SolAmount("num", 0, 0, 1), DefaultBuyAmount,
    SolAmount("num", 9, LAMPORTS_PER_SOL - 1, 1), SolAmount("num", 10, 0, 0),
    SolAmount("num", 10, 0, 1), SolAmount("num", 11, 0, 0) }

\* The comparison on the whole SOL only.
SolGreater_WholeOnly(x, n) == x.kind = "num" /\ x.sol > n

\* x > n for a number x and a whole n >= 0.
SolGreater(x, n) ==
  x.kind = "num" /\ (x.sol > n \/ (x.sol = n /\ (x.nano > 0 \/ x.sub > 0)))

\* A count of lamports, as <<q, r>> for q * LAMPORTS_PER_SOL + r.
Lamports(q, r) == <<q, r>>

\* a <= b for counts of lamports.
LamportsLeq(a, b) == a[1] < b[1] \/ (a[1] = b[1] /\ a[2] <= b[2])

\* Math.floor(x * LAMPORTS_PER_SOL) for x >= 0. The product is taken as exact:
\* where the floating-point product falls just below a whole lamport the
\* code's count is one lamport lower.
FloorLamports(x) == Lamports(x.sol, x.nano)

\* err.message of the error the catch block of launchToken receives.
ErrMessage == "err.message"

\* No response yet.
NoData == [kind |-> "none"]

\* One entry of calls.
Call(ev, tx, body) == [ev |-> ev, tx |-> tx, body |-> body]

NoBody == [none |-> TRUE]

\* ------------------------------------------------------------ the calls of an attempt

\* The places of calls that hold event ev of transaction tx.
Places(ev, tx) == {k \in 1..Len(calls) : calls[k].ev = ev /\ calls[k].tx = tx}

PlacesOf(ev) == {k \in 1..Len(calls) : calls[k].ev = ev}

\* Transaction tx was sent, and its confirmTransaction had resolved, before place k.
SentAndConfirmedBefore(tx, k) ==
  \E a \in Places("send", tx), b \in Places("confirm", tx), c \in Places("confirmed", tx) :
    a < b /\ b < c /\ c < k

LastCall == calls[Len(calls)]

\* ------------------------------------------------------------ the form

InitClient ==
  /\ wallet = "none"
  /\ imageFile = "none"
  /\ formFilled = FALSE
  /\ formLong = FALSE
  /\ initialBuyEnabled = FALSE
  /\ initialBuyAmount = DefaultBuyAmount
  /\ feeShareEnabled = FALSE
  /\ feeClaimers = <<>>
  /\ status = "idle"
  /\ signingStep = 0
  /\ error = ""
  /\ txSignature = EmptySig
  /\ mintAddress = EmptyMint
  /\ pc = "idle"
  /\ data = NoData
  /\ ci = 0
  /\ launchSignature = EmptySig
  /\ calls = <<>>

\* No create-bags-token handler is running.
EdgeIdle == [stage |-> "idle"]

InitSystem ==
  /\ edge = EdgeIdle
  /\ db = {}
  /\ ledger = {}

\* The form is rendered unless status is 'success'. launchToken reads the state
\* of the render that created it, so a change of the form during an attempt
\* reaches only the next attempt: the form changes between attempts.
FormEditable == pc = "idle" /\ status # "success"

\* The wallet adapter connects or disconnects a wallet.
SetWallet(w) ==
  /\ FormEditable
  /\ wallet # w
  /\ wallet' = w
  /\ UNCHANGED <<imageFile, formFilled, formLong, feeShareEnabled, feeClaimers, buyVars, launchVars, pc, data, ci, launchSignature>>
  /\ calls' = <<>>
  /\ UNCHANGED envVars

\* handleImageChange with a picked file: one above 5 MiB sets the error and
\* leaves the image file as it was.
HandleImageChange(size) ==
  /\ FormEditable
  /\ IF size = "big"
     THEN /\ error # "Image must be less than 5MB"
          /\ error' = "Image must be less than 5MB"
          /\ UNCHANGED <<imageFile, status, signingStep, txSignature, mintAddress>>
     ELSE /\ imageFile # size
          /\ imageFile' = size
          /\ UNCHANGED launchVars
  /\ UNCHANGED <<wallet, formFilled, formLong, feeShareEnabled, feeClaimers, buyVars, pc, data, ci, launchSignature>>
  /\ calls' = <<>>
  /\ UNCHANGED envVars

\* handleInputChange: name, symbol and description become all non-empty, or
\* one of them is emptied. The inputs have maxLength 32, 10 and 500: an edit
\* makes no field too long, and may shorten the ones that were.
HandleInputChange(filled, shortened) ==
  /\ FormEditable
  /\ formFilled # filled \/ (formLong /\ shortened)
  /\ formFilled' = filled
  /\ formLong' = (formLong /\ ~shortened)
  /\ UNCHANGED <<wallet, imageFile, feeShareEnabled, feeClaimers, buyVars, launchVars, pc, data, ci, launchSignature>>
  /\ calls' = <<>>
  /\ UNCHANGED envVars

\* The useEffect on the virusThreat prop: the form takes the name, symbol and
\* description of the threat, and the image file becomes the fetched logo,
\* whatever its size. logo = "none": the threat has no logoUrl.
VirusThreatPrefill(filled, long, logo) ==
  /\ FormEditable
  /\ formFilled' = filled
  /\ formLong' = long
  /\ imageFile' = IF logo = "none" THEN imageFile ELSE logo
  /\ <<formFilled', formLong', imageFile'>> # <<formFilled, formLong, imageFile>>
  /\ UNCHANGED <<wallet, feeShareEnabled, feeClaimers, buyVars, launchVars, pc, data, ci, launchSignature>>
  /\ calls' = <<>>
  /\ UNCHANGED envVars

\* The switch of the initial-buy section.
SetInitialBuyEnabled(b) ==
  /\ FormEditable
  /\ initialBuyEnabled # b
  /\ initialBuyEnabled' = b
  /\ UNCHANGED <<wallet, imageFile, formFilled, formLong, feeShareEnabled, feeClaimers, initialBuyAmount, launchVars, pc, data, ci, launchSignature>>
  /\ calls' = <<>>
  /\ UNCHANGED envVars

\* The amount field, rendered while the initial buy is enabled.
SetInitialBuyAmount(a) ==
  /\ FormEditable
  /\ initialBuyEnabled
  /\ initialBuyAmount # a
  /\ initialBuyAmount' = a
  /\ UNCHANGED <<wallet, imageFile, formFilled, formLong, feeShareEnabled, feeClaimers, initialBuyEnabled, launchVars, pc, data, ci, launchSignature>>
  /\ calls' = <<>>
  /\ UNCHANGED envVars

SetFeeShareEnabled(b) ==
  /\ FormEditable
  /\ feeShareEnabled # b
  /\ feeShareEnabled' = b
  /\ UNCHANGED <<wallet, imageFile, formFilled, formLong, feeClaimers, buyVars, launchVars, pc, data, ci, launchSignature>>
  /\ calls' = <<>>
  /\ UNCHANGED envVars

\* The claimer rows are rendered only while fee sharing is enabled. The user of
\* the model fills in the username of a row before adding the next row.
AddFeeClaimer ==
  /\ FormEditable
  /\ feeShareEnabled
  /\ Len(feeClaimers) < MaxClaimers
  /\ Len(feeClaimers) > 0 => feeClaimers[Len(feeClaimers)].username # ""
  /\ feeClaimers' = Append(feeClaimers, [username |-> "", bps |-> 1000])
  /\ UNCHANGED <<wallet, imageFile, formFilled, formLong, feeShareEnabled, buyVars, launchVars, pc, data, ci, launchSignature>>
  /\ calls' = <<>>
  /\ UNCHANGED envVars

RemoveFeeClaimer(index) ==
  /\ FormEditable
  /\ feeShareEnabled
  /\ index \in 1..Len(feeClaimers)
  /\ feeClaimers' = [k \in 1..(Len(feeClaimers) - 1) |->
                       IF k < index THEN feeClaimers[k] ELSE feeClaimers[k + 1]]
  /\ UNCHANGED <<wallet, imageFile, formFilled, formLong, feeShareEnabled, buyVars, launchVars, pc, data, ci, launchSignature>>
  /\ calls' = <<>>
  /\ UNCHANGED envVars

\* Math.min(Math.max(0, Number(value)), 9900)
ClampBps(value) == JsMin(JsMax(0, value), 9900)

\* updateFeeClaimer(index, 'bps', value)
UpdateFeeClaimerBps(index, value) ==
  /\ FormEditable
  /\ feeShareEnabled
  /\ index \in 1..Len(feeClaimers)
  /\ feeClaimers[index].bps # ClampBps(value)
  /\ feeClaimers' = [feeClaimers EXCEPT ![index].bps = ClampBps(value)]
  /\ UNCHANGED <<wallet, imageFile, formFilled, formLong, feeShareEnabled, buyVars, launchVars, pc, data, ci, launchSignature>>
  /\ calls' = <<>>
  /\ UNCHANGED envVars

\* updateFeeClaimer(index, 'username', value), on the last row.
UpdateFeeClaimerUsername(index, value) ==
  /\ FormEditable
  /\ feeShareEnabled
  /\ index \in 1..Len(feeClaimers)
  /\ index = Len(feeClaimers)
  /\ feeClaimers[index].username # value
  /\ feeClaimers' = [feeClaimers EXCEPT ![index].username = value]
  /\ UNCHANGED <<wallet, imageFile, formFilled, formLong, feeShareEnabled, buyVars, launchVars, pc, data, ci, launchSignature>>
  /\ calls' = <<>>
  /\ UNCHANGED envVars

RECURSIVE SumBps(_)
SumBps(fcs) ==
  IF fcs = <<>> THEN 0 ELSE JsAdd(SumBps(SubSeq(fcs, 1, Len(fcs) - 1)), fcs[Len(fcs)].bps)

\* feeClaimers.reduce((sum, fc) => sum + fc.bps, 0)
getTotalFeeClaimerBps == SumBps(feeClaimers)

getCreatorBps == JsSub(10000, getTotalFeeClaimerBps)

\* ------------------------------------------------------------ launchToken

\* The early returns of launchToken: the message set, or "" when the launch starts.
\* buyAmountSol of line 221
buyAmountSol == IF initialBuyEnabled THEN initialBuyAmount ELSE ZeroSol

\* buyAmountSol > 0 ? Math.floor(buyAmountSol * LAMPORTS_PER_SOL) : 0
InitialBuyLamports ==
  IF SolGreater(buyAmountSol, 0) THEN FloorLamports(buyAmountSol) ELSE Lamports(0, 0)

ValidationError ==
  IF wallet # "full" \/ imageFile = "none"
  THEN "Please connect wallet and upload an image"
  ELSE IF ~formFilled
  THEN "Please fill in name, symbol, and description"
  ELSE IF feeShareEnabled /\ Len(feeClaimers) > 0
          /\ \E k \in 1..Len(feeClaimers) : feeClaimers[k].username = ""
  THEN "Please fill in all fee claimer usernames"
  ELSE IF feeShareEnabled /\ Len(feeClaimers) > 0 /\ JsLess(getCreatorBps, 100)
  THEN "Creator must receive at least 1% (100 bps)"
  ELSE IF initialBuyEnabled /\ (buyAmountSol.kind = "nan" \/ buyAmountSol.kind = "neg"
                                 \/ SolGreater(buyAmountSol, 10))
  THEN "Initial buy amount must be between 0 and 10 SOL"
  ELSE ""

\* A rejected launch that ends like a failed one.
LaunchTokenRejected_AsFailure ==
  /\ pc = "idle"
  /\ status \in {"idle", "error"}
  /\ ValidationError # ""
  /\ error' = ValidationError
  /\ status' = "error"
  /\ UNCHANGED <<formVars, signingStep, txSignature, mintAddress, runVars>>
  /\ UNCHANGED envVars

\* The launch dialog is confirmed. The button that opens the dialog is disabled
\* while status is neither 'idle' nor 'error'; the wallet may have disconnected
\* since the dialog opened.
LaunchTokenRejected ==
  /\ pc = "idle"
  /\ status \in {"idle", "error"}
  /\ ValidationError # ""
  /\ error' = ValidationError
  /\ UNCHANGED <<formVars, status, signingStep, txSignature, mintAddress, runVars>>
  /\ UNCHANGED envVars

LaunchTokenStarts ==
  /\ pc = "idle"
  /\ status \in {"idle", "error"}
  /\ ValidationError = ""
  /\ status' = "uploading"
  /\ error' = ""
  /\ pc' = "readImage"
  /\ data' = NoData
  /\ ci' = 0
  /\ launchSignature' = EmptySig
  /\ calls' = <<>>
  /\ UNCHANGED <<formVars, signingStep, txSignature, mintAddress>>
  /\ UNCHANGED envVars

\* The catch block of launchToken, entered with signingStep as the try block
\* left it and with log the calls made so far. The locals of the call (data, i,
\* launchSignature) end with it.
CatchAt(message, step, log) ==
  /\ error' = message
  /\ calls' = Append(log, Call("failed", NoTx, NoBody))
  /\ status' = "error"
  /\ signingStep' = step
  /\ pc' = "idle"
  /\ data' = NoData
  /\ ci' = 0
  /\ launchSignature' = EmptySig
  /\ UNCHANGED <<formVars, txSignature, mintAddress>>

Catch(message) == CatchAt(message, signingStep, calls)

\* feeClaimersPayload
FeeClaimersPayload ==
  IF feeShareEnabled /\ Len(feeClaimers) > 0
  THEN [defined |-> TRUE,
        list |-> [k \in 1..Len(feeClaimers) |->
                    [username |-> feeClaimers[k].username, bps |-> feeClaimers[k].bps]]]
  ELSE [defined |-> FALSE, list |-> <<>>]

\* The create-bags-token request of lines 252-266: filled stands for its name,
\* symbol and description being non-empty, long for one of them being above
\* its length limit, image for the size of imageBase64.
CreateBody ==
  [filled |-> formFilled, long |-> formLong, image |-> imageFile,
   initialBuyLamports |-> InitialBuyLamports, feeClaimers |-> FeeClaimersPayload]

\* The FileReader ends with the image read: the create-bags-token request is sent.
ReadImageDone ==
  /\ pc = "readImage"
  /\ status' = "creating"
  /\ calls' = Append(calls, Call("invoke:create-bags-token", NoTx, CreateBody))
  /\ pc' = "awaitCreate"
  /\ UNCHANGED <<formVars, signingStep, error, txSignature, mintAddress, data, ci,
                 launchSignature>>
  /\ UNCHANGED envVars

\* The FileReader ends with an error: reader.result is null, onloadend throws
\* inside the event handler, and the awaited promise is never settled.
ReadImageFails ==
  /\ pc = "readImage"
  /\ pc' = "hung"
  /\ UNCHANGED <<formVars, launchVars, data, ci, launchSignature, calls>>
  /\ UNCHANGED envVars

\* The create-bags-token response reaches the client (lines 268-272).
OnCreateResponse(resp) ==
  /\ pc = "awaitCreate"
  /\ IF resp.kind = "fnError"
     THEN Catch(ErrMessage)
     ELSE IF resp.kind = "dataError"
     THEN Catch(ErrMessage)
     ELSE /\ data' = resp
          /\ status' = "signing-config"
          /\ signingStep' = 1
          /\ calls' = Append(calls, Call("response:create-bags-token", NoTx, resp))
          /\ pc' = "importBs58"
          /\ UNCHANGED <<formVars, error, txSignature, mintAddress, ci, launchSignature>>

\* The test of line 278.
TwoStep(d) == d.step = "config" /\ d.nConfig > 0

\* import('bs58') resolves and the branch of line 278 is taken; wellFormed is
\* whether the first transaction blob decodes and deserializes.
ImportResolves(wellFormed) ==
  /\ pc = "importBs58"
  /\ IF ~wellFormed
     THEN CatchAt(ErrMessage, IF TwoStep(data) THEN 1 ELSE 3, calls)
     ELSE IF TwoStep(data)
     THEN /\ signingStep' = 1
          /\ ci' = 1
          /\ calls' = Append(calls, Call("sign", ConfigTx(1), NoBody))
          /\ pc' = "signConfig"
          /\ UNCHANGED <<formVars, status, error, txSignature, mintAddress, data,
                         launchSignature>>
     ELSE /\ signingStep' = 3
          /\ status' = "signing-launch"
          /\ calls' = Append(calls, Call("sign", LaunchTx, NoBody))
          /\ pc' = "signLaunch"
          /\ UNCHANGED <<formVars, error, txSignature, mintAddress, data, ci,
                         launchSignature>>
  /\ UNCHANGED envVars

ImportRejects ==
  /\ pc = "importBs58"
  /\ Catch(ErrMessage)
  /\ UNCHANGED envVars

\* signTransaction(configTx) resolves: sendRawTransaction is called.
ConfigSignResolves ==
  /\ pc = "signConfig"
  /\ status' = "confirming"
  /\ calls' = Append(calls, Call("send", ConfigTx(ci), NoBody))
  /\ pc' = "sendConfig"
  /\ UNCHANGED <<formVars, signingStep, error, txSignature, mintAddress, data, ci,
                 launchSignature>>
  /\ UNCHANGED envVars

\* ConfigSendResolves with confirmTransaction called and not awaited: the loop
\* goes on to the next config transaction at once.
ConfigSendResolves_NotAwaited ==
  /\ pc = "sendConfig"
  /\ IF ci < data.nConfig
     THEN /\ signingStep' = ci + 1
          /\ ci' = ci + 1
          /\ status' = "signing-config"
          /\ calls' = calls \o <<Call("confirm", ConfigTx(ci), NoBody),
                                 Call("sign", ConfigTx(ci + 1), NoBody)>>
          /\ pc' = "signConfig"
     ELSE /\ calls' = Append(calls, Call("confirm", ConfigTx(ci), NoBody))
          /\ pc' = "confirmConfig"
          /\ UNCHANGED <<signingStep, ci, status>>
  /\ UNCHANGED <<formVars, error, txSignature, mintAddress, data, launchSignature>>
  /\ UNCHANGED envVars

\* sendRawTransaction resolves with configSig: confirmTransaction is called.
ConfigSendResolves ==
  /\ pc = "sendConfig"
  /\ calls' = Append(calls, Call("confirm", ConfigTx(ci), NoBody))
  /\ pc' = "confirmConfig"
  /\ UNCHANGED <<formVars, launchVars, data, ci, launchSignature>>
  /\ UNCHANGED envVars

\* The get-launch-transaction request of lines 300-308.
GetLaunchBody ==
  [tokenMint |-> data.tokenMint, configKey |-> data.configKey,
   initialBuyLamports |-> InitialBuyLamports]

\* confirmTransaction resolves (txErr: with an on-chain error in its value, which
\* the loop does not read): the next config transaction is decoded (wellFormed:
\* it decodes and deserializes) and handed to the wallet, or, after the last
\* one, the launch transaction is requested.
ConfigConfirmResolves(txErr, wellFormed) ==
  /\ pc = "confirmConfig"
  /\ IF ci < data.nConfig /\ ~wellFormed
     THEN CatchAt(ErrMessage, ci + 1,
                  Append(calls, Call("confirmed", ConfigTx(ci), [err |-> txErr])))
     ELSE IF ci < data.nConfig
     THEN /\ status' = "signing-config"
          /\ signingStep' = ci + 1
          /\ ci' = ci + 1
          /\ calls' = calls \o <<Call("confirmed", ConfigTx(ci), [err |-> txErr]),
                                 Call("sign", ConfigTx(ci + 1), NoBody)>>
          /\ pc' = "signConfig"
          /\ UNCHANGED <<formVars, error, txSignature, mintAddress, data, launchSignature>>
     ELSE /\ status' = "creating"
          /\ calls' = calls \o <<Call("confirmed", ConfigTx(ci), [err |-> txErr]),
                                 Call("invoke:get-launch-transaction", NoTx, GetLaunchBody)>>
          /\ pc' = "awaitGetLaunch"
          /\ UNCHANGED <<formVars, signingStep, error, txSignature, mintAddress, data, ci,
                         launchSignature>>
  /\ UNCHANGED envVars

\* signTransaction, sendRawTransaction or confirmTransaction of a config
\* transaction rejects.
ConfigStepRejects ==
  /\ pc \in {"signConfig", "sendConfig", "confirmConfig"}
  /\ Catch(ErrMessage)
  /\ UNCHANGED envVars

\* The get-launch-transaction response reaches the client (lines 310-317);
\* wellFormed is whether launchData.transaction decodes and deserializes.
OnGetLaunchResponse(resp, wellFormed) ==
  /\ pc = "awaitGetLaunch"
  /\ IF resp.kind = "fnError"
     THEN Catch(ErrMessage)
     ELSE IF resp.kind = "dataError"
     THEN Catch(ErrMessage)
     ELSE IF ~wellFormed
     THEN CatchAt(ErrMessage, 3, calls)
     ELSE /\ signingStep' = 3
          /\ status' = "signing-launch"
          /\ calls' = Append(calls, Call("sign", LaunchTx, NoBody))
          /\ pc' = "signLaunch"
          /\ UNCHANGED <<formVars, error, txSignature, mintAddress, data, ci,
                         launchSignature>>

\* signTransaction(launchTx) resolves: sendRawTransaction is called
\* (lines 317-323 and 332-338).
LaunchSignResolves ==
  /\ pc = "signLaunch"
  /\ status' = "confirming"
  /\ calls' = Append(calls, Call("send", LaunchTx, NoBody))
  /\ pc' = "sendLaunch"
  /\ UNCHANGED <<formVars, signingStep, error, txSignature, mintAddress, data, ci,
                 launchSignature>>
  /\ UNCHANGED envVars

\* LaunchSendResolves with the save request sent as soon as the transaction is
\* submitted, before its confirmation.
LaunchSendResolves_SaveUnconfirmed ==
  /\ pc = "sendLaunch"
  /\ launchSignature' = SigOf(LaunchTx)
  /\ status' = "saving"
  /\ calls' = Append(calls, Call("invoke:save-launched-token", NoTx,
                                 [mintAddress |-> data.tokenMint,
                                  txSignature |-> SigOf(LaunchTx)]))
  /\ pc' = "awaitSave"
  /\ UNCHANGED <<formVars, signingStep, error, txSignature, mintAddress, data, ci>>
  /\ UNCHANGED envVars

\* sendRawTransaction resolves with launchSignature: confirmTransaction is called.
LaunchSendResolves ==
  /\ pc = "sendLaunch"
  /\ launchSignature' = SigOf(LaunchTx)
  /\ calls' = Append(calls, Call("confirm", LaunchTx, NoBody))
  /\ pc' = "confirmLaunch"
  /\ UNCHANGED <<formVars, launchVars, data, ci>>
  /\ UNCHANGED envVars

\* The save-launched-token request of lines 344-357.
\* The save request with the signature of a config transaction.
SaveBody_ConfigSig ==
  [hasName |-> formFilled, hasSymbol |-> formFilled, hasCreator |-> TRUE,
   mintAddress |-> data.tokenMint, txSignature |-> SigOf(ConfigTx(1))]

\* The save-launched-token request of lines 344-357: name and symbol are those
\* of the form, creatorAddress is publicKey.toBase58().
SaveBody ==
  [hasName |-> formFilled, hasSymbol |-> formFilled, hasCreator |-> TRUE,
   mintAddress |-> data.tokenMint, txSignature |-> launchSignature]

\* confirmTransaction resolves (txErr: with an on-chain error in its value, which
\* launchToken does not read): the save-launched-token request is sent.
LaunchConfirmResolves(txErr) ==
  /\ pc = "confirmLaunch"
  /\ status' = "saving"
  /\ calls' = calls \o <<Call("confirmed", LaunchTx, [err |-> txErr]),
                         Call("invoke:save-launched-token", NoTx, SaveBody)>>
  /\ pc' = "awaitSave"
  /\ UNCHANGED <<formVars, signingStep, error, txSignature, mintAddress, data, ci,
                 launchSignature>>

\* LaunchStepRejects with a rejected sendRawTransaction sent again.
LaunchStepRejects_Retried ==
  /\ pc \in {"signLaunch", "sendLaunch", "confirmLaunch"}
  /\ IF pc = "sendLaunch"
     THEN /\ calls' = calls \o <<Call("failed", NoTx, NoBody), Call("send", LaunchTx, NoBody)>>
          /\ UNCHANGED <<formVars, launchVars, pc, data, ci, launchSignature>>
     ELSE Catch(ErrMessage)
  /\ UNCHANGED envVars

\* signTransaction, sendRawTransaction or confirmTransaction of the launch
\* transaction rejects.
LaunchStepRejects ==
  /\ pc \in {"signLaunch", "sendLaunch", "confirmLaunch"}
  /\ Catch(ErrMessage)
  /\ UNCHANGED envVars

\* OnSaveResponse with the result of the call read and a failure thrown.
OnSaveResponse_Thrown(saved) ==
  /\ pc = "awaitSave"
  /\ IF saved
     THEN /\ txSignature' = launchSignature
          /\ mintAddress' = data.tokenMint
          /\ status' = "success"
          /\ UNCHANGED <<signingStep, error>>
     ELSE /\ error' = ErrMessage
          /\ status' = "error"
          /\ UNCHANGED <<signingStep, txSignature, mintAddress>>
  /\ calls' = Append(calls, Call("saveResult", NoTx, [saved |-> saved]))
  /\ pc' = "idle"
  /\ data' = NoData
  /\ ci' = 0
  /\ launchSignature' = EmptySig
  /\ UNCHANGED formVars

\* The awaited save-launched-token call resolves; functions.invoke reports a
\* failure in its result (saved = FALSE) and launchToken does not read the result.
OnSaveResponse(saved) ==
  /\ pc = "awaitSave"
  /\ txSignature' = launchSignature
  /\ mintAddress' = data.tokenMint
  /\ status' = "success"
  /\ calls' = Append(calls, Call("saveResult", NoTx, [saved |-> saved]))
  /\ pc' = "idle"
  /\ data' = NoData
  /\ ci' = 0
  /\ launchSignature' = EmptySig
  /\ UNCHANGED <<formVars, signingStep, error>>

\* reset, the button of the success view.
Reset ==
  /\ pc = "idle"
  /\ status = "success"
  /\ imageFile' = "none"
  /\ formFilled' = FALSE
  /\ formLong' = FALSE
  /\ initialBuyEnabled' = FALSE
  /\ initialBuyAmount' = DefaultBuyAmount
  /\ feeShareEnabled' = FALSE
  /\ feeClaimers' = <<>>
  /\ status' = "idle"
  /\ signingStep' = 0
  /\ error' = ""
  /\ txSignature' = EmptySig
  /\ mintAddress' = EmptyMint
  /\ calls' = <<>>
  /\ UNCHANGED <<wallet, pc, data, ci, launchSignature>>
  /\ UNCHANGED envVars

\* ------------------------------------------------------------ the component alone

\* Every response of create-bags-token the component can be given. The
\* component reads configKey in the two-step flow only (line 304).
CreateResponses ==
  {[kind |-> k, step |-> "undefined", nConfig |-> 0, tokenMint |-> EmptyMint,
    configKey |-> NoKey] : k \in {"fnError", "dataError"}}
  \cup [kind : {"ok"}, step : {"undefined"}, nConfig : 0..MaxConfigTxs,
        tokenMint : Mints, configKey : {NoKey}]
  \cup [kind : {"ok"}, step : {"config"}, nConfig : 0..MaxConfigTxs,
        tokenMint : Mints, configKey : ConfigKeys \cup {NoKey}]

\* Every response of get-launch-transaction the component can be given.
GetLaunchResponses == [kind : {"fnError", "dataError", "ok"}]

CreateRespondsAny ==
  /\ \E r \in CreateResponses : OnCreateResponse(r)
  /\ UNCHANGED envVars

GetLaunchRespondsAny ==
  /\ \E r \in GetLaunchResponses, b \in BOOLEAN : OnGetLaunchResponse(r, b)
  /\ UNCHANGED envVars

SaveRespondsAny ==
  /\ \E saved \in BOOLEAN : OnSaveResponse(saved)
  /\ UNCHANGED envVars

LaunchConfirmResolvesAny ==
  /\ \E e \in BOOLEAN : LaunchConfirmResolves(e)
  /\ UNCHANGED envVars

\* The wallet, the image and the text fields.
BasicFormAction ==
  \/ \E w \in {"none", "full"} : SetWallet(w)
  \/ \E size \in {"file", "big"} : HandleImageChange(size)
  \/ \E b \in BOOLEAN, sh \in BOOLEAN : HandleInputChange(b, sh)

\* The fee-sharing section.
FeeFormAction ==
  \/ \E b \in BOOLEAN : SetFeeShareEnabled(b)
  \/ AddFeeClaimer
  \/ \E k \in 1..MaxClaimers : RemoveFeeClaimer(k)
  \/ \E k \in 1..MaxClaimers, v \in BpsInputs : UpdateFeeClaimerBps(k, v)
  \/ \E k \in 1..MaxClaimers, u \in Usernames : UpdateFeeClaimerUsername(k, u)

\* The steps of launchToken that both flows take.
LaunchAction ==
  \/ LaunchTokenRejected
  \/ LaunchTokenStarts
  \/ ReadImageDone
  \/ ReadImageFails
  \/ \E b \in BOOLEAN : ImportResolves(b)
  \/ ImportRejects
  \/ LaunchSignResolves
  \/ LaunchSendResolves
  \/ LaunchStepRejects
  \/ Reset

\* The steps of the config-transaction loop.
TwoStepAction ==
  \/ ConfigSignResolves
  \/ ConfigSendResolves
  \/ \E e \in BOOLEAN, b \in BOOLEAN : ConfigConfirmResolves(e, b)
  \/ ConfigStepRejects

NextClient ==
  \/ BasicFormAction
  \/ FeeFormAction
  \/ LaunchAction
  \/ TwoStepAction
  \/ CreateRespondsAny
  \/ GetLaunchRespondsAny
  \/ LaunchConfirmResolvesAny
  \/ SaveRespondsAny

InitSymIdle ==
  /\ symIn = <<>>
  /\ symOnce = <<>>
  /\ symTwice = <<>>
  /\ symStage = 0

\* useState(false) of LaunchConfirmDialog.
InitDialog == open = FALSE

\* The symbol field of the form is empty (line 62).
InitStored ==
  /\ formSymbol = <<>>
  /\ metadataSymbol = <<>>
  /\ rowSymbol = <<>>
  /\ symbolStep = "form"

\* The gallery right after its effect ran (lines 27-61): the query is sent and
\* the channel is being joined; useState([]) and useState(true).
InitGallery ==
  /\ gCount = 0
  /\ gChannel = "joining"
  /\ gEvents = <<>>
  /\ gFetch = [stage |-> "sent"]
  /\ tokens = <<>>
  /\ loading = TRUE
  /\ gReceived = {}

InitAux == InitDialog /\ InitStored /\ InitGallery

InitC == InitSymIdle /\ InitClient /\ InitSystem /\ InitAux

SpecClient == InitC /\ [][NextClient]_vars

\* The initial-buy section.
BuyFormAction ==
  \/ \E b \in BOOLEAN : SetInitialBuyEnabled(b)
  \/ \E a \in BuyAmounts : SetInitialBuyAmount(a)

\* The component with the initial-buy section, fee sharing left off.
NextBuy ==
  \/ BasicFormAction
  \/ BuyFormAction
  \/ LaunchAction
  \/ TwoStepAction
  \/ CreateRespondsAny
  \/ GetLaunchRespondsAny
  \/ LaunchConfirmResolvesAny
  \/ SaveRespondsAny

SpecBuy == InitC /\ [][NextBuy]_vars

\* ------------------------------------------------------------ the launch dialog

\* The launch button without its disabled attribute.
HandleLaunchClick_NeverDisabled ==
  /\ wallet # "none"
  /\ ~open
  /\ open' = TRUE
  /\ UNCHANGED <<symVars, clientVars, sysVars, storedVars, galleryVars>>

\* handleLaunchClick (lines 869-872), which the launch button runs unless it is
\* disabled (line 831): setOpen(true) with a wallet connected.
HandleLaunchClick ==
  /\ wallet # "none"
  /\ status \in {"idle", "error"}
  /\ ~open
  /\ open' = TRUE
  /\ UNCHANGED <<symVars, clientVars, sysVars, storedVars, galleryVars>>

\* onOpenChange(false): Cancel, Escape.
DialogCancel ==
  /\ open
  /\ open' = FALSE
  /\ UNCHANGED <<symVars, clientVars, sysVars, storedVars, galleryVars>>

\* launchToken up to its first await (lines 196-238); it does not look at
\* status. A call that passes the validation is the attempt the model follows
\* from then on.
LaunchToken ==
  /\ IF ValidationError # ""
     THEN /\ error' = ValidationError
          /\ UNCHANGED <<status, runVars>>
     ELSE /\ status' = "uploading"
          /\ error' = ""
          /\ pc' = "readImage"
          /\ data' = NoData
          /\ ci' = 0
          /\ launchSignature' = EmptySig
          /\ calls' = <<>>
  /\ UNCHANGED <<formVars, signingStep, txSignature, mintAddress>>

\* handleConfirm (lines 874-877): setOpen(false) and onConfirm(), which is
\* launchToken (line 830).
HandleConfirm ==
  /\ open
  /\ open' = FALSE
  /\ LaunchToken
  /\ UNCHANGED <<symVars, sysVars, storedVars, galleryVars>>

\* The component with its launch button and dialog: a launch starts with
\* handleConfirm only. The dialog is modal: the form is edited while it is
\* closed; the wallet connects and disconnects at any time.
NextDialog ==
  \/ ~open /\ BasicFormAction
  \/ \E w \in {"none", "full"} : SetWallet(w)
  \/ HandleLaunchClick
  \/ DialogCancel
  \/ HandleConfirm
  \/ ReadImageDone
  \/ ReadImageFails
  \/ \E b \in BOOLEAN : ImportResolves(b)
  \/ ImportRejects
  \/ LaunchSignResolves
  \/ LaunchSendResolves
  \/ LaunchStepRejects
  \/ Reset
  \/ TwoStepAction
  \/ CreateRespondsAny
  \/ GetLaunchRespondsAny
  \/ LaunchConfirmResolvesAny
  \/ SaveRespondsAny

SpecDialog == InitC /\ [][NextDialog]_vars

\* ------------------------------------------------------------ the stored symbol

\* handleInputChange on the symbol input, or the virusThreat prefill.
HandleSymbolChange(s) ==
  /\ symbolStep = "form"
  /\ formSymbol # s
  /\ formSymbol' = s
  /\ UNCHANGED <<metadataSymbol, rowSymbol, symbolStep>>
  /\ UNCHANGED <<symVars, clientVars, sysVars, dialogVars, galleryVars>>

\* The launch sends formData.symbol to create-bags-token (line 255), which
\* appends symbol.toUpperCase().replace('$', '') to the multipart form of
\* create-token-info (line 84). An empty symbol does not pass line 202.
PublishSymbol ==
  /\ symbolStep = "form"
  /\ formSymbol # <<>>
  /\ metadataSymbol' = NormalizeSymbol(formSymbol)
  /\ symbolStep' = "published"
  /\ UNCHANGED <<formSymbol, rowSymbol>>
  /\ UNCHANGED <<symVars, clientVars, sysVars, dialogVars, galleryVars>>

\* The launch sends formData.symbol to save-launched-token (line 347), which
\* inserts it as the symbol column (line 151 of the handler).
StoreSymbol ==
  /\ symbolStep = "published"
  /\ rowSymbol' = formSymbol
  /\ symbolStep' = "stored"
  /\ UNCHANGED <<formSymbol, metadataSymbol>>
  /\ UNCHANGED <<symVars, clientVars, sysVars, dialogVars, galleryVars>>

\* reset (lines 370-390): the form is emptied for the next launch.
ResetSymbol ==
  /\ symbolStep = "stored"
  /\ formSymbol' = <<>>
  /\ metadataSymbol' = <<>>
  /\ rowSymbol' = <<>>
  /\ symbolStep' = "form"
  /\ UNCHANGED <<symVars, clientVars, sysVars, dialogVars, galleryVars>>

NextStored ==
  \/ \E s \in Symbols : HandleSymbolChange(s)
  \/ PublishSymbol
  \/ StoreSymbol
  \/ ResetSymbol

SpecStored == InitC /\ [][NextStored]_vars

\* ------------------------------------------------------------ the gallery

\* .order('created_at', { ascending: false }).limit(50): the newest rows, the
\* newest first.
NewestRows ==
  LET n == IF gCount < GalleryLimit THEN gCount ELSE GalleryLimit
  IN  [k \in 1..n |-> gCount + 1 - k]

\* [payload.new, ...prev].slice(0, 50)
Prepended(id, prev) ==
  LET all == <<id>> \o prev
  IN  IF Len(all) <= GalleryLimit THEN all ELSE SubSeq(all, 1, GalleryLimit)

\* The server has joined the channel: from now on an INSERT is sent to it.
SubscribeJoined ==
  /\ gChannel = "joining"
  /\ gChannel' = "joined"
  /\ UNCHANGED <<gCount, gEvents, gFetch, tokens, loading, gReceived>>
  /\ UNCHANGED <<symVars, clientVars, sysVars, dialogVars, storedVars>>

\* A row is inserted into launched_tokens.
InsertRow ==
  /\ gCount < MaxTokens
  /\ gCount' = gCount + 1
  /\ gEvents' = IF gChannel = "joined" THEN Append(gEvents, gCount + 1) ELSE gEvents
  /\ UNCHANGED <<gChannel, gFetch, tokens, loading, gReceived>>
  /\ UNCHANGED <<symVars, clientVars, sysVars, dialogVars, storedVars>>

\* The table answers the query of lines 30-34 (ok) or the query fails.
FetchExecutes(ok) ==
  /\ gFetch.stage = "sent"
  /\ gFetch' = [stage |-> "answered", ok |-> ok, data |-> IF ok THEN NewestRows ELSE <<>>]
  /\ UNCHANGED <<gCount, gChannel, gEvents, tokens, loading, gReceived>>
  /\ UNCHANGED <<symVars, clientVars, sysVars, dialogVars, storedVars>>

\* The answer reaches fetchTokens (lines 36-41): setTokens(data || []) unless
\* it is an error, and setLoading(false).
FetchResponds ==
  /\ gFetch.stage = "answered"
  /\ tokens' = IF gFetch.ok THEN gFetch.data ELSE tokens
  /\ loading' = FALSE
  /\ gFetch' = [stage |-> "done"]
  /\ UNCHANGED <<gCount, gChannel, gEvents, gReceived>>
  /\ UNCHANGED <<symVars, clientVars, sysVars, dialogVars, storedVars>>

\* The handler of lines 56-59 gets the next INSERT event.
OnInsertEvent ==
  /\ gEvents # <<>>
  /\ tokens' = Prepended(Head(gEvents), tokens)
  /\ gReceived' = gReceived \cup {Head(gEvents)}
  /\ gEvents' = Tail(gEvents)
  /\ UNCHANGED <<gCount, gChannel, gFetch, loading>>
  /\ UNCHANGED <<symVars, clientVars, sysVars, dialogVars, storedVars>>

NextGallery ==
  \/ SubscribeJoined
  \/ InsertRow
  \/ \E ok \in BOOLEAN : FetchExecutes(ok)
  \/ FetchResponds
  \/ OnInsertEvent

SpecGallery == InitC /\ [][NextGallery]_vars

\* ------------------------------------------------------------ create-bags-token

\* The status of an external answer for which response.ok is false.
UpstreamErrorStatuses == {"400", "503"}

\* The body of an external answer with such a status: JSON with an error, a
\* message or a response field, JSON with none of them, or no JSON at all.
ErrorBodies == {"error", "message", "response", "noField", "notJson"}

\* What create-token-info can answer: a non-success status, a success status
\* with a body that is not JSON, or a JSON body whose response has a tokenMint
\* (EmptyMint: none) and may have a tokenMetadata.
MetadataResponses ==
  [kind : {"httpError"}, status : UpstreamErrorStatuses, errBody : ErrorBodies,
   tokenMint : {EmptyMint}, hasMetadata : {FALSE}]
  \cup [kind : {"notJson"}, status : {"200"}, errBody : {"none"},
        tokenMint : {EmptyMint}, hasMetadata : {FALSE}]
  \cup [kind : {"ok"}, status : {"200"}, errBody : {"none"},
        tokenMint : Mints \cup {EmptyMint}, hasMetadata : BOOLEAN]

\* What fee-share/config can answer.
FeeConfigResponses ==
  [kind : {"httpError"}, status : UpstreamErrorStatuses, errBody : ErrorBodies,
   configKey : {NoKey}, needsCreation : {FALSE}, nTx : {0}]
  \cup [kind : {"notJson"}, status : {"200"}, errBody : {"none"},
        configKey : {NoKey}, needsCreation : {FALSE}, nTx : {0}]
  \cup [kind : {"ok"}, status : {"200"}, errBody : {"none"},
        configKey : ConfigKeys \cup {NoKey}, needsCreation : BOOLEAN,
        nTx : 0..MaxConfigTxs]

\* What create-launch-transaction can answer.
LaunchTxResponses ==
  [kind : {"httpError"}, status : UpstreamErrorStatuses, errBody : ErrorBodies,
   hasTransaction : {FALSE}]
  \cup [kind : {"notJson"}, status : {"200"}, errBody : {"none"}, hasTransaction : {FALSE}]
  \cup [kind : {"ok"}, status : {"200"}, errBody : {"none"}, hasTransaction : BOOLEAN]

\* A response with a non-2xx status, which functions.invoke reports as an error.
ErrorResponse ==
  [kind |-> "fnError", step |-> "undefined", nConfig |-> 0, tokenMint |-> EmptyMint,
   configKey |-> NoKey]

\* The text of field f of the JSON body of an external answer.
ErrorJson(f) ==
  CASE f = "error" -> "errorJson.error"
    [] f = "message" -> "errorJson.message"
    [] f = "response" -> "errorJson.response"

\* errorMessage of lines 107-111: errorJson.error || errorJson.message ||
\* errorJson.response || errorMessage, the default when JSON.parse throws.
MetadataErrorMessage(r) ==
  IF r.errBody \in {"error", "message", "response"}
  THEN ErrorJson(r.errBody)
  ELSE "Failed to create token metadata"

\* errorMessage of lines 173-177: errorJson.error || errorJson.response ||
\* errorMessage.
FeeShareErrorMessage(r) ==
  IF r.errBody \in {"error", "response"}
  THEN ErrorJson(r.errBody)
  ELSE "Failed to create fee share config"

\* errorMessage of lines 239-243.
LaunchErrorMessage(r) ==
  IF r.errBody \in {"error", "response"}
  THEN ErrorJson(r.errBody)
  ELSE "Failed to create launch transaction"

\* The handler has answered with HTTP status http and, for an error, with
\* message.
EdgeResponded(resp, http, message) ==
  [stage |-> "responded", response |-> resp, http |-> http, message |-> message]

\* The handler without the length test of lines 50-56.
EdgeStart_NoLengthTest(keyConfigured) ==
  /\ pc = "awaitCreate"
  /\ edge.stage = "idle"
  /\ LastCall.ev = "invoke:create-bags-token"
  /\ IF ~keyConfigured
     THEN /\ edge' = EdgeResponded(ErrorResponse, "500", "BAGS_API_KEY is not configured")
          /\ UNCHANGED calls
     ELSE /\ edge' = [stage |-> "metadata"]
          /\ calls' = Append(calls, Call("api:create-token-info", NoTx,
                                         [image |-> LastCall.body.image]))
  /\ UNCHANGED <<symVars, auxVars, formVars, launchVars, pc, data, ci, launchSignature, db, ledger>>

\* The handler starts on the request of the component (lines 16-99): without
\* the API key or with a required field missing it answers with an error,
\* otherwise it sends the multipart form to create-token-info.
EdgeStart(keyConfigured) ==
  /\ pc = "awaitCreate"
  /\ edge.stage = "idle"
  /\ LastCall.ev = "invoke:create-bags-token"
  /\ IF ~keyConfigured
     THEN /\ edge' = EdgeResponded(ErrorResponse, "500", "BAGS_API_KEY is not configured")
          /\ UNCHANGED calls
     ELSE IF ~LastCall.body.filled
     THEN /\ edge' = EdgeResponded(ErrorResponse, "400", "Missing required fields: name, symbol, description, image, and creatorPublicKey are required")
          /\ UNCHANGED calls
     ELSE IF LastCall.body.long
     THEN /\ edge' = EdgeResponded(ErrorResponse, "400", "Invalid field lengths")
          /\ UNCHANGED calls
     ELSE /\ edge' = [stage |-> "metadata"]
          /\ calls' = Append(calls, Call("api:create-token-info", NoTx,
                                         [image |-> LastCall.body.image]))
  /\ UNCHANGED <<symVars, auxVars, formVars, launchVars, pc, data, ci, launchSignature, db, ledger>>

\* feeSharePayload
FeeSharePayload(tokenMint) == [baseMint |-> tokenMint, basisPointsArray |-> <<10000>>]

\* The handler that takes a token info response without its tokenMetadata.
EdgeMetadataResponds_NoMetadataTest(r) ==
  /\ edge.stage = "metadata"
  /\ IF r.kind # "ok" \/ r.tokenMint = EmptyMint
     THEN /\ edge' = IF r.kind = "httpError"
                     THEN EdgeResponded(ErrorResponse, r.status, MetadataErrorMessage(r))
                     ELSE IF r.kind = "notJson"
                     THEN EdgeResponded(ErrorResponse, "500", "Invalid response from Bags API")
                     ELSE EdgeResponded(ErrorResponse, "500",
                                        "Invalid token info response - missing required fields")
          /\ calls' = Append(calls, Call("apiResponse:create-token-info", NoTx, r))
     ELSE /\ edge' = [stage |-> "feeConfig", tokenMint |-> r.tokenMint]
          /\ calls' = calls \o <<Call("apiResponse:create-token-info", NoTx, r),
                                 Call("api:fee-share/config", NoTx,
                                      FeeSharePayload(r.tokenMint))>>
  /\ UNCHANGED <<symVars, auxVars, formVars, launchVars, pc, data, ci, launchSignature, db, ledger>>

\* create-token-info answers (lines 101-165): a non-success status is answered
\* with that status (lines 105-116), a body that is not JSON (lines 118-127) or
\* lacks tokenMint or tokenMetadata (lines 133-139) with 500.
EdgeMetadataResponds(r) ==
  /\ edge.stage = "metadata"
  /\ IF r.kind # "ok" \/ r.tokenMint = EmptyMint \/ ~r.hasMetadata
     THEN /\ edge' = IF r.kind = "httpError"
                     THEN EdgeResponded(ErrorResponse, r.status, MetadataErrorMessage(r))
                     ELSE IF r.kind = "notJson"
                     THEN EdgeResponded(ErrorResponse, "500", "Invalid response from Bags API")
                     ELSE EdgeResponded(ErrorResponse, "500",
                                        "Invalid token info response - missing required fields")
          /\ calls' = Append(calls, Call("apiResponse:create-token-info", NoTx, r))
     ELSE /\ edge' = [stage |-> "feeConfig", tokenMint |-> r.tokenMint]
          /\ calls' = calls \o <<Call("apiResponse:create-token-info", NoTx, r),
                                 Call("api:fee-share/config", NoTx,
                                      FeeSharePayload(r.tokenMint))>>
  /\ UNCHANGED <<symVars, auxVars, formVars, launchVars, pc, data, ci, launchSignature, db, ledger>>

\* launchPayload, with the mint of an earlier launch.
LaunchPayload_FixedMint(tokenMint, configKey) == [tokenMint |-> "M1", configKey |-> configKey]

\* launchPayload without the config key.
LaunchPayload_NoKey(tokenMint, configKey) == [tokenMint |-> tokenMint, configKey |-> NoKey]

\* launchPayload
LaunchPayload(tokenMint, configKey) == [tokenMint |-> tokenMint, configKey |-> configKey]

\* The handler that answers a failed fee-share/config request with 500.
EdgeFeeConfigResponds_Status500(r) ==
  /\ edge.stage = "feeConfig"
  /\ IF r.kind # "ok" \/ r.configKey = NoKey
     THEN /\ edge' = IF r.kind = "httpError"
                     THEN EdgeResponded(ErrorResponse, "500", FeeShareErrorMessage(r))
                     ELSE IF r.kind = "notJson"
                     THEN EdgeResponded(ErrorResponse, "500",
                                        "Invalid fee share response from Bags API")
                     ELSE EdgeResponded(ErrorResponse, "500",
                                        "Failed to get fee share config key")
          /\ calls' = Append(calls, Call("apiResponse:fee-share/config", NoTx, r))
     ELSE /\ edge' = [stage |-> "launchTx", tokenMint |-> edge.tokenMint,
                      configKey |-> r.configKey, needsCreation |-> r.needsCreation,
                      nTx |-> r.nTx]
          /\ calls' = calls \o <<Call("apiResponse:fee-share/config", NoTx, r),
                                 Call("api:create-launch-transaction", NoTx,
                                      LaunchPayload(edge.tokenMint, r.configKey))>>
  /\ UNCHANGED <<symVars, auxVars, formVars, launchVars, pc, data, ci, launchSignature, db, ledger>>

\* fee-share/config answers (lines 167-231): a non-success status is answered
\* with that status (lines 171-182), a body that is not JSON (lines 184-193) or
\* has no configKey (lines 201-207) with 500.
EdgeFeeConfigResponds(r) ==
  /\ edge.stage = "feeConfig"
  /\ IF r.kind # "ok" \/ r.configKey = NoKey
     THEN /\ edge' = IF r.kind = "httpError"
                     THEN EdgeResponded(ErrorResponse, r.status, FeeShareErrorMessage(r))
                     ELSE IF r.kind = "notJson"
                     THEN EdgeResponded(ErrorResponse, "500",
                                        "Invalid fee share response from Bags API")
                     ELSE EdgeResponded(ErrorResponse, "500",
                                        "Failed to get fee share config key")
          /\ calls' = Append(calls, Call("apiResponse:fee-share/config", NoTx, r))
     ELSE /\ edge' = [stage |-> "launchTx", tokenMint |-> edge.tokenMint,
                      configKey |-> r.configKey, needsCreation |-> r.needsCreation,
                      nTx |-> r.nTx]
          /\ calls' = calls \o <<Call("apiResponse:fee-share/config", NoTx, r),
                                 Call("api:create-launch-transaction", NoTx,
                                      LaunchPayload(edge.tokenMint, r.configKey))>>
  /\ UNCHANGED <<symVars, auxVars, formVars, launchVars, pc, data, ci, launchSignature, db, ledger>>

\* The body of the success response (lines 275-285): it has no step and no
\* configKey field.
CreateResult(e) ==
  [kind |-> "ok", step |-> "undefined",
   nConfig |-> IF e.needsCreation THEN e.nTx ELSE 0,
   tokenMint |-> e.tokenMint,
   configKey |-> NoKey]

\* create-launch-transaction answers (lines 233-285): a non-success status is
\* answered with that status (lines 237-248), a body that is not JSON (lines
\* 250-259) or has no transaction (lines 263-269) with 500.
EdgeLaunchTxResponds(r) ==
  /\ edge.stage = "launchTx"
  /\ IF r.kind = "httpError"
     THEN edge' = EdgeResponded(ErrorResponse, r.status, LaunchErrorMessage(r))
     ELSE IF r.kind = "notJson"
     THEN edge' = EdgeResponded(ErrorResponse, "500", "Invalid launch response from Bags API")
     ELSE IF ~r.hasTransaction
     THEN edge' = EdgeResponded(ErrorResponse, "500", "No transaction returned from Bags API")
     ELSE edge' = EdgeResponded(CreateResult(edge), "200", "")
  /\ calls' = Append(calls, Call("apiResponse:create-launch-transaction", NoTx, r))
  /\ UNCHANGED <<symVars, auxVars, formVars, launchVars, pc, data, ci, launchSignature, db, ledger>>

\* The response of the handler reaches the component.
CreateRespondsFromEdge ==
  /\ edge.stage = "responded"
  /\ OnCreateResponse(edge.response)
  /\ edge' = EdgeIdle
  /\ UNCHANGED <<symVars, auxVars, db, ledger>>

\* ------------------------------------------------------------ save-launched-token

\* A signature no ledger transaction has.
FakeSig == <<"sig", "fake", 0>>

\* The test of line 134 without name, symbol and creatorAddress.
SaveMissing_MintAndSignatureOnly(body) ==
  body.mintAddress = EmptyMint \/ body.txSignature = EmptySig

\* The test of line 134: !name || !symbol || !mintAddress || !creatorAddress ||
\* !txSignature.
SaveMissing(body) ==
  \/ ~body.hasName
  \/ ~body.hasSymbol
  \/ body.mintAddress = EmptyMint
  \/ ~body.hasCreator
  \/ body.txSignature = EmptySig

\* The row of lines 149-160.
InsertedRow(body) == [mint_address |-> body.mintAddress, tx_signature |-> body.txSignature]

\* mint_address TEXT NOT NULL UNIQUE
UniqueViolation(row) == \E r \in db : r.mint_address = row.mint_address

\* The handler on a request (lines 117-177): the table after it, whether it
\* answered with success, its HTTP status and the number of inserts it
\* attempted. dbUp: the insert reaches the database.
SaveOutcome(body, dbUp) ==
  IF SaveMissing(body)
  THEN [saved |-> FALSE, db |-> db, http |-> "400", inserts |-> 0]
  ELSE IF ~dbUp \/ UniqueViolation(InsertedRow(body))
  THEN [saved |-> FALSE, db |-> db, http |-> "500", inserts |-> 1]
  ELSE [saved |-> TRUE, db |-> db \cup {InsertedRow(body)}, http |-> "200", inserts |-> 1]

\* The handler answers the request of the component.
SaveFromClient ==
  /\ pc = "awaitSave"
  /\ LastCall.ev = "invoke:save-launched-token"
  /\ \E dbUp \in BOOLEAN :
       LET out == SaveOutcome(LastCall.body, dbUp)
       IN  /\ db' = out.db
           /\ OnSaveResponse(out.saved)
  /\ UNCHANGED <<symVars, auxVars, edge, ledger>>

\* The requests anyone can post to the handler.
DirectSaveBodies ==
  [hasName : BOOLEAN, hasSymbol : BOOLEAN, hasCreator : BOOLEAN,
   mintAddress : Mints \cup {EmptyMint},
   txSignature : {EmptySig, FakeSig, SigOf(LaunchTx)}]

\* The handler answers a request that did not come from launchToken.
DirectSave(body) ==
  /\ db' = SaveOutcome(body, TRUE).db
  /\ db' # db
  /\ UNCHANGED <<symVars, auxVars, clientVars, edge, ledger>>

\* ------------------------------------------------------------ the ledger

\* confirmTransaction resolves: without an on-chain error the launch
\* transaction of the token is confirmed on the ledger.
LaunchConfirmLedger ==
  /\ \E txErr \in BOOLEAN :
       /\ LaunchConfirmResolves(txErr)
       /\ ledger' = IF txErr THEN ledger ELSE ledger \cup {data.tokenMint}
  /\ UNCHANGED <<symVars, auxVars, edge, db>>

\* ------------------------------------------------------------ the whole system

\* create-bags-token answers without a step field, so the test of line 278 fails
\* for each of its responses and the config-transaction loop is not entered:
\* Next has no step of TwoStepAction.
Next ==
  \/ BasicFormAction
  \/ \E f \in BOOLEAN, l \in BOOLEAN, logo \in {"none", "file", "big"} : VirusThreatPrefill(f, l, logo)
  \/ LaunchAction
  \/ \E b \in BOOLEAN : EdgeStart(b)
  \/ \E r \in MetadataResponses : EdgeMetadataResponds(r)
  \/ \E r \in FeeConfigResponses : EdgeFeeConfigResponds(r)
  \/ \E r \in LaunchTxResponses : EdgeLaunchTxResponds(r)
  \/ CreateRespondsFromEdge
  \/ LaunchConfirmLedger
  \/ SaveFromClient
  \/ \E body \in DirectSaveBodies : DirectSave(body)

Spec == InitC /\ [][Next]_vars

\* The component with its fee-sharing section and create-bags-token; the table
\* and the ledger are left out.
NextFee ==
  \/ BasicFormAction
  \/ FeeFormAction
  \/ LaunchAction
  \/ \E b \in BOOLEAN : EdgeStart(b)
  \/ \E r \in MetadataResponses : EdgeMetadataResponds(r)
  \/ \E r \in FeeConfigResponses : EdgeFeeConfigResponds(r)
  \/ \E r \in LaunchTxResponses : EdgeLaunchTxResponds(r)
  \/ CreateRespondsFromEdge
  \/ LaunchConfirmResolvesAny
  \/ SaveRespondsAny

SpecFee == InitC /\ [][NextFee]_vars

\* The config-transaction loop is unreachable in Spec.
SingleStepOnly ==
  /\ data # NoData => ~TwoStep(data)
  /\ pc \notin {"signConfig", "sendConfig", "confirmConfig", "awaitGetLaunch"}

\* ------------------------------------------------------------ properties of the whole system

\* The places where fee-share/config reported that on-chain creation is
\* needed, with a non-empty list of transactions.
NeedsCreationPlaces ==
  {j \in PlacesOf("apiResponse:fee-share/config") :
     /\ calls[j].body.kind = "ok"
     /\ calls[j].body.needsCreation
     /\ calls[j].body.nTx > 0}

\* Each config transaction of the fee-share/config response at place j was
\* sent and confirmed before place k.
ConfigTxsDoneBefore(j, k) ==
  \A i \in 1..calls[j].body.nTx : SentAndConfirmedBefore(ConfigTx(i), k)

\* C2: when fee-share/config reported needsCreation with a non-empty list of
\* transactions, the launch transaction is handed to signTransaction only
\* after each of those config transactions was sent and confirmed.
C2_ConfigTxsBeforeLaunchSign ==
  \A k \in Places("sign", LaunchTx) :
    \A j \in NeedsCreationPlaces : j < k => ConfigTxsDoneBefore(j, k)

\* C5: when fee-share/config reported needsCreation with a non-empty list of
\* transactions, create-launch-transaction is requested only after each of
\* those config transactions was sent and confirmed.
C5_LaunchTxRequestedAfterConfig ==
  \A k \in PlacesOf("api:create-launch-transaction") :
    \A j \in NeedsCreationPlaces : j < k => ConfigTxsDoneBefore(j, k)

\* The tokenMint that create-token-info returned in this launch.
MetadataMints ==
  {calls[k].body.tokenMint : k \in {j \in PlacesOf("apiResponse:create-token-info") :
                                      calls[j].body.kind = "ok"}}

\* C6: the tokenMint returned by create-token-info in a launch is the baseMint
\* of the fee-share/config request, the tokenMint of each launch-transaction
\* request, the mintAddress of the save request, the mint address shown, and
\* the mint_address of the row the launch stored.
C6_TokenMintCarriedThrough ==
  \A m \in MetadataMints :
    /\ \A k \in PlacesOf("api:fee-share/config") : calls[k].body.baseMint = m
    /\ \A k \in PlacesOf("api:create-launch-transaction") : calls[k].body.tokenMint = m
    /\ \A k \in PlacesOf("invoke:get-launch-transaction") : calls[k].body.tokenMint = m
    /\ \A k \in PlacesOf("invoke:save-launched-token") : calls[k].body.mintAddress = m
    /\ (LastCall.ev = "saveResult" /\ LastCall.body.saved) =>
         /\ mintAddress = m
         /\ [mint_address |-> m, tx_signature |-> SigOf(LaunchTx)] \in db

\* A launch has stored its row, for the second of the mints.
C6_Witness ==
  /\ calls # <<>>
  /\ LastCall.ev = "saveResult"
  /\ LastCall.body.saved
  /\ MetadataMints = {"M2"}
  /\ PlacesOf("api:create-launch-transaction") # {}

\* C8: each row of launched_tokens is of a token whose launch transaction was
\* confirmed on the ledger.
C8_RowsOnlyForConfirmedLaunches ==
  \A row \in db : row.mint_address \in ledger

\* C12: no create-bags-token request and no create-token-info request carries
\* an image above 5 MiB, however the image file of the launchpad was set.
C12_NoImageAboveLimitSent ==
  /\ \A k \in PlacesOf("invoke:create-bags-token") : calls[k].body.image # "big"
  /\ \A k \in PlacesOf("api:create-token-info") : calls[k].body.image # "big"

\* C19: a request with a name, symbol or description above its length limit is
\* answered with status 400 by a handler that has its API key, and no request
\* to an external endpoint is made for it.
C19_LongFieldsRejected ==
  \A k \in PlacesOf("invoke:create-bags-token") :
    calls[k].body.long =>
      /\ \A j \in (k + 1)..Len(calls) : calls[j].ev = "failed"
      /\ edge.stage \in {"idle", "responded"}
      /\ (edge.stage = "responded" /\ edge.message # "BAGS_API_KEY is not configured") =>
           edge.http = "400"

\* The handler has its API key and has answered a request with all fields
\* present and one of them too long.
C19_Witness ==
  /\ edge.stage = "responded"
  /\ edge.message = "Invalid field lengths"
  /\ calls # <<>>
  /\ LastCall.ev = "invoke:create-bags-token"
  /\ LastCall.body.long
  /\ LastCall.body.filled

\* The requests to and the answers of the external endpoints, in the order
\* create-bags-token uses them.
ApiRequestEvents ==
  {"api:create-token-info", "api:fee-share/config", "api:create-launch-transaction"}

ApiResponseEvents ==
  {"apiResponse:create-token-info", "apiResponse:fee-share/config",
   "apiResponse:create-launch-transaction"}

\* The generic message of the stage whose answer is logged as ev.
GenericMessage(ev) ==
  CASE ev = "apiResponse:create-token-info" -> "Failed to create token metadata"
    [] ev = "apiResponse:fee-share/config" -> "Failed to create fee share config"
    [] ev = "apiResponse:create-launch-transaction" -> "Failed to create launch transaction"

C22_UnusableMetadataRejected ==
  \A k \in PlacesOf("apiResponse:create-token-info") :
    (/\ calls[k].body.kind # "httpError"
     /\ \/ calls[k].body.kind = "notJson"
        \/ calls[k].body.tokenMint = EmptyMint
        \/ ~calls[k].body.hasMetadata) =>
      /\ \A j \in (k + 1)..Len(calls) :
           calls[j].ev \notin {"api:fee-share/config", "api:create-launch-transaction"}
      /\ edge.stage \in {"idle", "responded"}
      /\ edge.stage = "responded" => (edge.http = "500" /\ edge.response.kind = "fnError")

\* create-token-info has answered with a tokenMint and no tokenMetadata, and
\* the handler has answered 500.
C22_Witness ==
  /\ edge.stage = "responded"
  /\ edge.http = "500"
  /\ calls # <<>>
  /\ LastCall.ev = "apiResponse:create-token-info"
  /\ LastCall.body.kind = "ok"
  /\ LastCall.body.tokenMint # EmptyMint
  /\ ~LastCall.body.hasMetadata

\* C23: the status 'signing-config' is taken only in a launch whose
\* create-bags-token response carries config transactions to sign; a launch
\* with none never has it.
C23_SigningConfigOnlyWithConfigTxs ==
  status = "signing-config" => (data # NoData /\ data.nConfig > 0)

\* The config transactions signed so far in the launch.
ConfigSignPlaces == {k \in PlacesOf("sign") : calls[k].tx # LaunchTx}

\* C24: a launch signs at most two config transactions, the signing step is
\* 1 or 2 only while a config transaction is signed, sent or confirmed, and
\* 3 only while the launch transaction is.
C24_SigningStepFollowsSigning ==
  /\ Cardinality(ConfigSignPlaces) <= 2
  /\ signingStep \in {1, 2} => pc \in {"signConfig", "sendConfig", "confirmConfig"}
  /\ signingStep = 3 => pc \in {"signLaunch", "sendLaunch", "confirmLaunch"}

\* A call of launchToken passes its validation and starts a launch attempt.
LaunchAttemptStarts == pc' = "readImage" /\ pc # "readImage"

C26_NoSuccessAfterTransactionError ==
  \A k \in Places("confirmed", LaunchTx) :
    calls[k].body.err =>
      /\ status \notin {"saving", "success"}
      /\ \A j \in (k + 1)..Len(calls) : calls[j].ev # "invoke:save-launched-token"
      /\ pc = "idle" => status = "error"

\* C27: the symbol stored in launched_tokens for a launch equals the
\* normalized symbol published to the metadata service for that launch.
C27_StoredSymbolIsPublishedSymbol ==
  symbolStep = "stored" => rowSymbol = metadataSymbol

\* C28: the list the gallery displays never has the same token id twice.
C28_NoTokenTwice ==
  ~loading => \A i \in 1..Len(tokens), j \in 1..Len(tokens) : i # j => tokens[i] # tokens[j]

\* C29: once the initial query is done, every token whose INSERT event the
\* gallery has received is in the list, as long as it is among the newest
\* rows the list has room for.
C29_NoReceivedTokenLost ==
  gFetch.stage = "done" =>
    \A id \in gReceived :
      (\E k \in 1..Len(NewestRows) : NewestRows[k] = id) =>
        \E k \in 1..Len(tokens) : tokens[k] = id

\* One of the five required fields of a save request is missing or empty.
RequiredFieldMissing(body) ==
  \/ ~body.hasName
  \/ ~body.hasSymbol
  \/ ~body.hasCreator
  \/ body.mintAddress = EmptyMint
  \/ body.txSignature = EmptySig

C13_InsertsIndependent ==
  \A body \in DirectSaveBodies : ~SaveMissing(body) => SaveOutcome(body, TRUE).saved

\* C16: a launch that ended with status 'success' has invoked
\* save-launched-token exactly once, with the signature of the launch
\* transaction, which is also the signature shown.
C16_SavedOnceWithLaunchSignature ==
  status = "success" =>
    /\ Cardinality(PlacesOf("invoke:save-launched-token")) = 1
    /\ \A k \in PlacesOf("invoke:save-launched-token") :
         /\ calls[k].body.txSignature = SigOf(LaunchTx)
         /\ txSignature = calls[k].body.txSignature

\* A two-step launch, with a config transaction that has a signature of its
\* own, has ended with status 'success'.
C16_Witness ==
  /\ status = "success"
  /\ Places("confirmed", ConfigTx(1)) # {}
  /\ PlacesOf("invoke:save-launched-token") # {}

\* The requests that carry initialBuyLamports.
BuyRequestPlaces ==
  PlacesOf("invoke:create-bags-token") \cup PlacesOf("invoke:get-launch-transaction")

\* C17: each create-bags-token and get-launch-transaction request carries
\* initialBuyLamports between 0 and the lamports of 10 SOL, 0 when the initial
\* buy is disabled; no attempt runs with an enabled amount that is not a
\* number, negative or above 10 SOL.
C17_InitialBuyBounded ==
  /\ \A k \in BuyRequestPlaces :
       /\ LamportsLeq(Lamports(0, 0), calls[k].body.initialBuyLamports)
       /\ LamportsLeq(calls[k].body.initialBuyLamports, Lamports(10, 0))
       /\ ~initialBuyEnabled => calls[k].body.initialBuyLamports = Lamports(0, 0)
  /\ (pc # "idle" /\ initialBuyEnabled) =>
       /\ initialBuyAmount.kind = "num"
       /\ initialBuyAmount.sol <= 10
       /\ initialBuyAmount.sol = 10 => (initialBuyAmount.nano = 0 /\ initialBuyAmount.sub = 0)

\* A get-launch-transaction request carries the lamports of 9.9999999995 SOL.
C17_Witness ==
  \E k \in PlacesOf("invoke:get-launch-transaction") :
    calls[k].body.initialBuyLamports = Lamports(9, LAMPORTS_PER_SOL - 1)

\* An input launchToken tests first is missing.
MissingInput == wallet # "full" \/ imageFile = "none" \/ ~formFilled

\* C18: with the wallet not connected, no image selected or a text field
\* empty, no launch attempt runs, and the step that sets the error message
\* of launchToken makes no call and leaves status, signing step, transaction
\* signature and mint address as they were.
C18_RejectedLaunchChangesNothing ==
  /\ [](pc # "idle" => ~MissingInput)
  /\ [][(pc = "idle" /\ MissingInput /\ error' # error
          /\ error' \in {"Please connect wallet and upload an image",
                         "Please fill in name, symbol, and description"})
         => /\ UNCHANGED <<status, signingStep, txSignature, mintAddress, pc>>
            /\ calls' = calls]_vars

\* launchToken has rejected a launch after a failed attempt: status is still
\* 'error', with the message of the rejection.
C18_Witness ==
  /\ wallet # "full"
  /\ status = "error"
  /\ error = "Please connect wallet and upload an image"

\* The basis points a request carries: a NaN goes out as null and adds nothing.
RECURSIVE CarriedBps(_)
CarriedBps(list) ==
  IF list = <<>> THEN 0
  ELSE CarriedBps(SubSeq(list, 1, Len(list) - 1))
       + (IF list[Len(list)].bps = NaN THEN 0 ELSE list[Len(list)].bps)

\* C15: the fee-share configuration sent to fee-share/config declares each
\* claimant of the launch request with its basis points after the creator,
\* whose share is 10000 minus the claimants' total.
C15_FeeSplitDeclared ==
  \A k \in PlacesOf("api:fee-share/config") :
    \A j \in PlacesOf("invoke:create-bags-token") :
      LET claimants == calls[j].body.feeClaimers
          declared == calls[k].body.basisPointsArray
      IN  claimants.defined =>
            /\ Len(declared) = 1 + Len(claimants.list)
            /\ \A i \in 1..Len(claimants.list) : declared[i + 1] = claimants.list[i].bps
            /\ declared[1] = 10000 - CarriedBps(claimants.list)

\* The places where fee-share/config returned a config key and reported that
\* no on-chain creation is needed.
NoCreationPlaces ==
  {j \in PlacesOf("apiResponse:fee-share/config") :
     /\ calls[j].body.kind = "ok"
     /\ calls[j].body.configKey # NoKey
     /\ ~calls[j].body.needsCreation}

\* C20: when fee-share/config reports needsCreation false, no config
\* transaction is handed to the wallet: the one signature the launch asks for
\* is for the launch transaction, requested with the returned config key.
C20_NoCreationOneSignature ==
  \A j \in NoCreationPlaces :
    /\ \A k \in PlacesOf("sign") : calls[k].tx = LaunchTx
    /\ Cardinality(PlacesOf("sign")) <= 1
    /\ Cardinality(PlacesOf("api:create-launch-transaction")) = 1
    /\ \A k \in PlacesOf("api:create-launch-transaction") :
         calls[k].body.configKey = calls[j].body.configKey
    /\ status \in {"confirming", "saving", "success"} => Cardinality(PlacesOf("sign")) = 1

\* The launch transaction was signed in a launch whose fee-share/config response
\* listed transactions and reported needsCreation false.
C20_Witness ==
  /\ \E j \in NoCreationPlaces : calls[j].body.nTx > 0
  /\ Places("sign", LaunchTx) # {}
  /\ status = "success"

\* ------------------------------------------------------------ properties of the component

\* C1: launchToken invokes save-launched-token only after the launch
\* transaction was submitted and confirmTransaction for it has resolved, in the
\* single-step and in the two-step flow.
C1_SaveOnlyAfterConfirmation ==
  \A k \in PlacesOf("invoke:save-launched-token") : SentAndConfirmedBefore(LaunchTx, k)

\* The save request is out, in a two-step launch.
C1_Witness ==
  /\ pc = "awaitSave"
  /\ PlacesOf("invoke:save-launched-token") # {}
  /\ Places("confirmed", ConfigTx(1)) # {}

\* C3: when the save-launched-token call fails after the launch transaction
\* was confirmed, launchToken ends with status 'success' and shows the launch
\* signature and the mint address of the response; status is not 'error'.
C3_SaveFailureStillSuccess ==
  (calls # <<>> /\ LastCall.ev = "saveResult" /\ ~LastCall.body.saved) =>
    /\ status = "success"
    /\ error = ""
    /\ txSignature = SigOf(LaunchTx)
    /\ \E k \in PlacesOf("response:create-bags-token") :
         mintAddress = calls[k].body.tokenMint

\* The save call of a confirmed launch has failed.
C3_Witness ==
  /\ calls # <<>>
  /\ LastCall.ev = "saveResult"
  /\ ~LastCall.body.saved
  /\ Places("confirmed", LaunchTx) # {}

\* C4: in the two-step flow a config transaction is handed to signTransaction
\* only after the one before it in the list was sent and its confirmTransaction
\* has resolved; the config transactions are signed once each, in list order.
C4_ConfigTxsInOrder ==
  \A k \in PlacesOf("sign") :
    (calls[k].tx[1] = "config") =>
      /\ calls[k].tx[2] > 1 => SentAndConfirmedBefore(ConfigTx(calls[k].tx[2] - 1), k)
      /\ \A j \in PlacesOf("sign") :
           (j < k /\ calls[j].tx[1] = "config") => calls[j].tx[2] < calls[k].tx[2]

\* The second config transaction is at the wallet.
C4_Witness ==
  /\ pc = "signConfig"
  /\ ci = 2
  /\ Places("sign", ConfigTx(2)) # {}

\* C9: after a failed step (a function error, a rejected signature, a failed
\* submission or confirmation) the attempt makes no further call, has not
\* invoked save-launched-token, and has ended with status 'error'.
C9_FailureEndsAttempt ==
  \A k \in PlacesOf("failed") :
    /\ k = Len(calls)
    /\ PlacesOf("invoke:save-launched-token") = {}
    /\ status = "error"
    /\ pc = "idle"

\* sendRawTransaction of the launch transaction has been rejected.
C9_Witness ==
  /\ calls # <<>>
  /\ LastCall.ev = "failed"
  /\ Len(calls) > 1
  /\ calls[Len(calls) - 1] = Call("send", LaunchTx, NoBody)

C7_ClaimantsWithinLimit ==
  \A k \in PlacesOf("invoke:create-bags-token") :
    CarriedBps(calls[k].body.feeClaimers.list) <= 9900

\* ------------------------------------------------------------ SpecSymbol

InitSymbol ==
  /\ symIn \in Symbols
  /\ symOnce = <<>>
  /\ symTwice = <<>>
  /\ symStage = 0
  /\ InitClient
  /\ InitSystem
  /\ InitAux

\* The handler normalizes the symbol of the request.
Normalize ==
  /\ symStage = 0
  /\ symOnce' = NormalizeSymbol(symIn)
  /\ symStage' = 1
  /\ UNCHANGED <<symIn, symTwice, clientVars, sysVars, auxVars>>

\* The normalized symbol is sent through the handler again.
NormalizeAgain ==
  /\ symStage = 1
  /\ symTwice' = NormalizeSymbol(symOnce)
  /\ symStage' = 2
  /\ UNCHANGED <<symIn, symOnce, clientVars, sysVars, auxVars>>

NextSymbol == Normalize \/ NormalizeAgain

SpecSymbol == InitSymbol /\ [][NextSymbol]_vars

\* C10: symbol normalization is idempotent: normalizing a normalized symbol
\* gives the same symbol, for every symbol string.
C10_NormalizeIdempotent == symStage = 2 => symTwice = symOnce

\* C11: the symbol published to the metadata service is the symbol of the
\* request in uppercase with one leading '$' removed, each other character
\* (a '$' that is not first included) left in place.
C11_SymbolStripsLeadingDollarOnly ==
  symStage >= 1 => symOnce = StripLeadingDollar(ToUpperCase(symIn))

====
